---- MODULE Spec2Model ----
(***************************************************************************)
(* Premium card renderer: the particle emitter (particles.js) and the      *)
(* PremiumCard surface lifecycle (PremiumCard.jsx).                        *)
(*                                                                         *)
(* Numbers are exact rationals on a grid.  Time is counted in ticks of     *)
(* 1/TicksPerSecond s; alpha is counted in units of 1/AlphaOne.  The grid  *)
(* is chosen so that every quotient the code forms (1 / emitRate,          *)
(* lifetime / maxLifetime times an alpha difference) is an integer, so the *)
(* operators below compute exactly what the code computes in real          *)
(* arithmetic.                                                             *)
(***************************************************************************)
EXTENDS Integers, Sequences, FiniteSets, TLC

\* ------------------------------------------------------------- bounds ----
MaxCount == 2
MaxElapsed == 5
MaxEmit == 3
MaxEffects == 2
MaxCalls == 2
RatioDen == 4
MaxTokens == 5
MaxTimer == 12
MaxDrain == 8

\* ------------------------------------------------------------- units -----
TicksPerSecond == 2 * 3
AlphaOne == 2 * 6
PosOne == 1 + 1

Max(a, b) == IF a >= b THEN a ELSE b
Min(a, b) == IF a <= b THEN a ELSE b

\* JavaScript `v || d`: the default replaces every falsy value, 0 included.
OrDefault(v, d) == IF v = 0 THEN d ELSE v

\* ------------------------------------------------------ emitter inputs ---
Counts == (0 - 1) .. MaxCount
EmitRates == {2, 3}
Deltas == {1, 4}
LifetimeRanges == {[min |-> 2, max |-> 4], [min |-> 1, max |-> 1]}
AlphaPairs == {[start |-> AlphaOne \div 2, end |-> 0],
               [start |-> 0, end |-> AlphaOne \div 2]}
EmitCounts == 1 .. MaxEmit
NoCall == 0 - 1
\* PARTICLE_PRESETS.sparkle.color, 0xffd700; the preset has no colorEnd.
Gold == 16766720
BurstDefault == 10

VARIABLES
  config,       \* ParticleEmitter.config
  particles,    \* ParticleEmitter.particles, the pool
  emitTimer,    \* ParticleEmitter.emitTimer, in ticks
  active,       \* ParticleEmitter.active
  count0,       \* history: config.count when the pool was built
  elapsed,      \* history: ticks fed to update while the emitter was started
  timedEmits,   \* history: emit(1) calls made by update's drain loop
  rateChanged,  \* history: setConfig has replaced emitRate
  chunks,       \* history: the delta sizes fed to update while started
  asked,        \* history: the argument of the last call if it was an emit
                \*          or a burst, 0 - 1 if it was an update that returned
                \*          at once because the emitter is stopped, 0 after
                \*          any other call
  fresh,        \* history: nothing has been called since the constructor
  updating,     \* the delta of the update call that is inside its drain
                \* loop, NoCall when no update call is running
  note          \* history, kept by the specifications that start it at
                \* "none": "changed" setConfig replaced emitRate since the
                \* last update, "indebted" the same and the accumulator
                \* holds a period of the new rate or more, "after change"
                \* and "after debt" the update that followed was entered

emitterVars == <<config, particles, emitTimer, active, count0, elapsed,
                 timedEmits, rateChanged, chunks, asked, fresh, updating, note>>

VARIABLES
  mounted,      \* the component is mounted: containerRef.current is its div
  props,        \* the props of the last render: card, size, isPremium
  eff,          \* one record per run of the useEffect body (see NewEffect)
  appRef,       \* appRef.current: the effect whose Application it holds, 0 null
  spriteRef,    \* spriteRef.current: the effect whose sprite it holds, 0 null
  animationRef  \* animationRef.current: the effect whose animate() made the
                \* last requestAnimationFrame call, 0 null

surfaceVars == <<mounted, props, eff, appRef, spriteRef, animationRef>>

VARIABLES
  house,        \* the house identifier the lookups are given
  theme,        \* what the houseColors expression evaluated to, by name
  preset,       \* the preset the emitter of createHouseEmitter(house) runs
  themeCalls,   \* history: evaluations of the houseColors expression
  presetCalls   \* history: calls of createHouseEmitter

lookupVars == <<house, theme, preset, themeCalls, presetCalls>>

VARIABLES
  colorEnd,     \* Particle.colorEnd, a 24-bit RGB colour
  color,        \* Particle.color before the interpolation (the base colour)
  lifeRatio,    \* lifetime / maxLifetime, in units of 1/RatioDen
  lerped        \* lerpColor(colorEnd, color, lifeRatio), 0 - 1 before a call

colourVars == <<colorEnd, color, lifeRatio, lerped>>

VARIABLES
  tokens,       \* Object.entries(card.tokens): <<type, count>> in map order
  discs,        \* the children of the token container, in addChild order
  overlay       \* createTokenOverlay: "none" not called, "built", "threw"

tokenVars == <<tokens, discs, overlay>>

VARIABLES
  isHovered,    \* React state isHovered
  mousePos,     \* React state mousePos, x and y in units of 1/PosOne
  lastEvent     \* history: the last pointer event and the host callbacks
                \* its handler called

pointerVars == <<isHovered, mousePos, lastEvent>>

VARIABLES
  statCard,     \* the card createStatsOverlay is given: power, modifiedPower
                \* and armor
  numerals,     \* the children of the container it returns, in addChild
                \* order: which stat and the text shown
  statsOverlay  \* createStatsOverlay: "none" not called, "built" returned

statsVars == <<statCard, numerals, statsOverlay>>

VARIABLES
  dragItem,     \* monitor.getItem(): the dragged item's source zone and its
                \* card's canPlay
  dropZone,     \* the `source` prop of the Droppable: the zone it stands for
  manualMode,   \* the manualMode prop of the Droppable
  canDrop       \* what the canDrop callback did for this item and these
                \* props: "not evaluated", the value returned, or "throws"

dropVars == <<dragItem, dropZone, manualMode, canDrop>>

vars == <<emitterVars, surfaceVars, lookupVars, colourVars, tokenVars,
          pointerVars, statsVars, dropVars>>

\* ------------------------------------------------------------ lerpColor ---
\* undefined, where a number is expected
Undefined == 0 - 1

\* (c >> 16) & 0xff, (c >> 8) & 0xff, c & 0xff
Red(c) == (c \div 65536) % 256
Green(c) == (c \div 256) % 256
Blue(c) == c % 256

\* Variant of RoundHalfUp: the fraction is cut off.
Truncate(num, den) == num \div den

\* Math.round(num / den) for den > 0: the nearest integer, a half goes up.
RoundHalfUp(num, den) == (2 * num + den) \div (2 * den)

\* Math.round(c1 + (c2 - c1) * ratio) for ratio = num / den
LerpChannelAt(c1, c2, num, den) == RoundHalfUp(c1 * den + (c2 - c1) * num, den)

\* lerpColor(color1, color2, ratio) for ratio = num / den:
\* (r << 16) | (g << 8) | b; the channels are below 256, so the bitwise or
\* is their sum.
LerpColorAt(color1, color2, num, den) ==
  LerpChannelAt(Red(color1), Red(color2), num, den) * 65536
  + LerpChannelAt(Green(color1), Green(color2), num, den) * 256
  + LerpChannelAt(Blue(color1), Blue(color2), num, den)

\* The same for ratio = k / RatioDen.
LerpChannel(c1, c2, k) == LerpChannelAt(c1, c2, k, RatioDen)
LerpColor(color1, color2, k) == LerpColorAt(color1, color2, k, RatioDen)

\* ------------------------------------------------------------ Particle ---
\* randomRange(min, max) = random() * (max - min) + min with random() in
\* [0, 1): every grid point of [min, max), or min when the range is empty.
RandomRange(min, max) == IF min < max THEN min .. (max - 1) ELSE {min}

\* cfg.key, undefined for a key the config does not have.
ConfigGet(cfg, key) == IF key \in DOMAIN cfg THEN cfg[key] ELSE Undefined

\* 0xffffff, the default of `config.color || 0xffffff`
White == 16777215

\* getRandomParticleConfig(): one record per outcome of the random draws.
GetRandomParticleConfig(cfg) ==
  {[lifetime |-> l, alphaStart |-> cfg.alpha.start, alphaEnd |-> cfg.alpha.end,
    color |-> cfg.color, colorEnd |-> ConfigGet(cfg, "colorEnd")] :
     l \in RandomRange(cfg.lifetime.min, cfg.lifetime.max)}

\* new Particle(c): `active` is set to true whatever the caller passes, and
\* alpha comes from c.alpha, a key getRandomParticleConfig never sets.
\* History fields, not read by the code: `base` is the colour the particle
\* was given when it was activated, `sampled` the lifetime that was drawn
\* for it, `age` the delta its update has been given since, and `id` the
\* object's identity: its place in the pool when the constructor pushed it,
\* 0 for an object made anywhere else.
NewParticle(c) ==
  [active |-> TRUE,
   lifetime |-> OrDefault(c.lifetime, TicksPerSecond),
   maxLifetime |-> OrDefault(c.lifetime, TicksPerSecond),
   alpha |-> AlphaOne,
   alphaStart |-> OrDefault(c.alphaStart, AlphaOne),
   alphaEnd |-> OrDefault(c.alphaEnd, 0),
   color |-> OrDefault(c.color, White),
   colorEnd |-> c.colorEnd,
   base |-> OrDefault(c.color, White),
   sampled |-> c.lifetime,
   age |-> 0,
   id |-> 0]

\* Particle.reset(c): every field the constructor sets except colorEnd,
\* which keeps the value the particle was constructed with.
ResetParticle(p, c) ==
  [active |-> TRUE,
   lifetime |-> OrDefault(c.lifetime, TicksPerSecond),
   maxLifetime |-> OrDefault(c.lifetime, TicksPerSecond),
   alpha |-> OrDefault(c.alphaStart, AlphaOne),
   alphaStart |-> OrDefault(c.alphaStart, AlphaOne),
   alphaEnd |-> OrDefault(c.alphaEnd, 0),
   color |-> OrDefault(c.color, White),
   colorEnd |-> p.colorEnd,
   base |-> OrDefault(c.color, White),
   sampled |-> c.lifetime,
   age |-> 0,
   id |-> p.id]

\* Variant of ParticleUpdate: the lifetime test is `< 0`, so a particle whose
\* lifetime reaches exactly 0 lives one update longer.
ParticleUpdateLate(p, delta) ==
  IF ~p.active THEN p
  ELSE IF p.lifetime - delta < 0
       THEN [p EXCEPT !.lifetime = p.lifetime - delta, !.active = FALSE,
                      !.age = p.age + delta]
       ELSE [p EXCEPT !.lifetime = p.lifetime - delta,
                      !.age = p.age + delta,
                      !.alpha = p.alphaEnd
                                + ((p.alphaStart - p.alphaEnd) * (p.lifetime - delta))
                                  \div p.maxLifetime,
                      !.color = IF p.colorEnd # Undefined
                                THEN LerpColorAt(p.colorEnd, p.color,
                                                 p.lifetime - delta, p.maxLifetime)
                                ELSE p.color]

\* Particle.update(delta): an inactive particle is left alone; a particle
\* whose lifetime runs out is deactivated before alpha and colour are
\* recomputed.  The colour step interpolates between colorEnd and the
\* colour the particle has now, the result of the update before.
ParticleUpdate(p, delta) ==
  IF ~p.active THEN p
  ELSE IF p.lifetime - delta <= 0
       THEN [p EXCEPT !.lifetime = p.lifetime - delta, !.active = FALSE,
                      !.age = p.age + delta]
       ELSE [p EXCEPT !.lifetime = p.lifetime - delta,
                      !.age = p.age + delta,
                      !.alpha = p.alphaEnd
                                + ((p.alphaStart - p.alphaEnd) * (p.lifetime - delta))
                                  \div p.maxLifetime,
                      !.color = IF p.colorEnd # Undefined
                                THEN LerpColorAt(p.colorEnd, p.color,
                                                 p.lifetime - delta, p.maxLifetime)
                                ELSE p.color]

\* ------------------------------------------------------ ParticleEmitter --
\* Mutant of FirstInactive: find() without its predicate, the first particle
\* whether it is active or not.
FirstAny(ps) == IF Len(ps) > 0 THEN 1 ELSE 0

\* particles.find((p) => !p.active): the first inactive index, 0 for none.
FirstInactive(ps) ==
  IF \E i \in 1 .. Len(ps) : ~ps[i].active
  THEN CHOOSE i \in 1 .. Len(ps) :
         ~ps[i].active /\ \A j \in 1 .. (i - 1) : ps[j].active
  ELSE 0

\* Mutant of EmitOutcomes: a round that finds no inactive particle allocates
\* a new one instead of dropping the request.
RECURSIVE EmitOutcomesGrow(_, _, _)
EmitOutcomesGrow(ps, n, cfg) ==
  IF n <= 0 THEN {ps}
  ELSE LET i == FirstInactive(ps)
       IN  UNION {EmitOutcomesGrow(
                    IF i = 0 THEN Append(ps, NewParticle(c))
                    ELSE [ps EXCEPT ![i] = ResetParticle(ps[i], c)], n - 1, cfg) :
                    c \in GetRandomParticleConfig(cfg)}

\* emit(n): the pools the n loop rounds can leave, one per random outcome.
RECURSIVE EmitOutcomes(_, _, _)
EmitOutcomes(ps, n, cfg) ==
  IF n <= 0 THEN {ps}
  ELSE LET i == FirstInactive(ps)
       IN  IF i = 0 THEN EmitOutcomes(ps, n - 1, cfg)
           ELSE UNION {EmitOutcomes([ps EXCEPT ![i] = ResetParticle(ps[i], c)], n - 1, cfg) :
                         c \in GetRandomParticleConfig(cfg)}

\* Mutant of DrainRounds: `if` in place of `while`, one round at most.
DrainOnce(timer, interval) == IF timer >= interval THEN 1 ELSE 0

\* update's drain loop: the number of rounds of
\* while (emitTimer >= emitInterval) { emit(1); emitTimer -= emitInterval }
RECURSIVE DrainRounds(_, _)
DrainRounds(timer, interval) ==
  IF timer >= interval THEN 1 + DrainRounds(timer - interval, interval) ELSE 0

EmitInterval(cfg) == TicksPerSecond \div cfg.emitRate

InactiveCount(ps) == Cardinality({i \in 1 .. Len(ps) : ~ps[i].active})
ActiveCount(ps) == Cardinality({i \in 1 .. Len(ps) : ps[i].active})

\* initParticlePool(): for (i = 0; i < count; i++) push(new Particle(...))
InitParticlePool(cfg) ==
  {[i \in DOMAIN made |-> [made[i] EXCEPT !.id = i]] :
     made \in [1 .. Max(0, cfg.count) ->
                {NewParticle(c) : c \in GetRandomParticleConfig(cfg)}]}

\* { ...this.config, ...partial }
MergeConfig(cfg, partial) ==
  [k \in DOMAIN cfg \cup DOMAIN partial |->
     IF k \in DOMAIN partial THEN partial[k] ELSE cfg[k]]

PartialConfigs ==
  {[emitRate |-> r] : r \in EmitRates}
  \cup {[lifetime |-> l] : l \in LifetimeRanges}

\* constructor(config), config one of cfgs
Constructed(cfgs) ==
  /\ config \in cfgs
  /\ particles \in InitParticlePool(config)
  /\ emitTimer = 0
  /\ active = TRUE
  /\ count0 = config.count
  /\ elapsed = 0
  /\ timedEmits = 0
  /\ rateChanged = FALSE
  /\ chunks = {}
  /\ asked = 0
  /\ fresh = TRUE
  /\ updating = NoCall

EmitterInit ==
  /\ Constructed([count : Counts, lifetime : LifetimeRanges, alpha : AlphaPairs,
                  emitRate : EmitRates, color : {Gold}])
  /\ note = "off"

\* emit(count)
Emit(n) ==
  /\ UNCHANGED <<surfaceVars, lookupVars, colourVars, tokenVars, pointerVars, statsVars, dropVars>>
  /\ UNCHANGED <<config, emitTimer, active, count0, elapsed, timedEmits,
                 rateChanged, chunks, updating, note>>
  /\ fresh' = FALSE
  /\ asked' = n
  /\ particles' \in EmitOutcomes(particles, n, config)

\* Variant of Burst: the request is queued on the emission accumulator and
\* served by the drain loop of later updates.
BurstThroughCadence(n) ==
  /\ UNCHANGED <<surfaceVars, lookupVars, colourVars, tokenVars, pointerVars, statsVars, dropVars>>
  /\ UNCHANGED <<config, particles, active, count0, elapsed, timedEmits,
                 rateChanged, chunks, updating, note>>
  /\ fresh' = FALSE
  /\ asked' = n
  /\ emitTimer' = emitTimer + n * EmitInterval(config)

\* burst(count) { this.emit(count) }
Burst(n) ==
  /\ UNCHANGED <<surfaceVars, lookupVars, colourVars, tokenVars, pointerVars, statsVars, dropVars>>
  /\ UNCHANGED <<config, emitTimer, active, count0, elapsed, timedEmits,
                 rateChanged, chunks, updating, note>>
  /\ fresh' = FALSE
  /\ asked' = n
  /\ particles' \in EmitOutcomes(particles, n, config)

\* 1 / emitRate in ticks for a rate other than 0; a negative rate has a
\* negative period.
SignedInterval(rate) ==
  IF rate > 0 THEN TicksPerSecond \div rate
  ELSE 0 - (TicksPerSecond \div (0 - rate))

\* Variant of DrainTest: `>` in place of `>=`.
DrainTestStrict(timer, rate) == rate # 0 /\ timer > SignedInterval(rate)

\* The loop test emitTimer >= emitInterval; 1 / 0 is Infinity, which no
\* accumulator reaches.
DrainTest(timer, rate) == rate # 0 /\ timer >= SignedInterval(rate)

\* emitTimer -= emitInterval.  A negative period makes the accumulator
\* grow; MaxTimer stands for the value from which adding the period no
\* longer changes a double.
DrainedTimer(timer, rate) == Min(timer - SignedInterval(rate), MaxTimer)

\* The history kept in `note` when setConfig ran.
NoteSetConfig(n, timer, rateBefore, rateAfter) ==
  IF n = "off" \/ rateAfter = rateBefore THEN n
  ELSE IF DrainTest(timer, rateAfter) THEN "indebted"
  ELSE "changed"

\* The history kept in `note` when an update call is entered.
NoteUpdate(n) ==
  CASE n = "changed" -> "after change"
    [] n = "indebted" -> "after debt"
    [] n = "off" -> "off"
    [] OTHER -> "none"

\* Variant of Stopped: update never returns early.
NeverStopped == FALSE

\* The test of `if (!this.active) return;` at the top of update.
Stopped == ~active

\* update(ticker), delta = ticker.deltaMS / 1000
Update(delta) ==
  /\ UNCHANGED <<surfaceVars, lookupVars, colourVars, tokenVars, pointerVars, statsVars, dropVars>>
  /\ elapsed + delta <= MaxElapsed
  /\ asked' = IF Stopped THEN 0 - 1 ELSE 0
  /\ fresh' = FALSE
  /\ UNCHANGED <<updating, note>>
  /\ IF Stopped
     THEN UNCHANGED <<config, particles, emitTimer, active, count0, elapsed,
                      timedEmits, rateChanged, chunks>>
     ELSE LET rounds == DrainRounds(emitTimer + delta, EmitInterval(config))
          IN  /\ emitTimer' = emitTimer + delta - rounds * EmitInterval(config)
              /\ particles' \in
                   {[i \in 1 .. Len(q) |-> ParticleUpdate(q[i], delta)] :
                      q \in EmitOutcomes(particles, rounds, config)}
              /\ elapsed' = elapsed + delta
              /\ timedEmits' = timedEmits + rounds
              /\ chunks' = chunks \cup {delta}
              /\ UNCHANGED <<config, active, count0, rateChanged>>

\* setConfig(partial)
SetConfig(partial) ==
  /\ UNCHANGED <<surfaceVars, lookupVars, colourVars, tokenVars, pointerVars, statsVars, dropVars>>
  /\ updating = NoCall
  /\ config' = MergeConfig(config, partial)
  /\ rateChanged' = (rateChanged \/ config'.emitRate # config.emitRate)
  /\ note' = NoteSetConfig(note, emitTimer, config.emitRate, config'.emitRate)
  /\ asked' = 0
  /\ fresh' = FALSE
  /\ UNCHANGED <<particles, emitTimer, active, count0, elapsed, timedEmits,
                 chunks, updating>>

\* start()
Start ==
  /\ UNCHANGED <<surfaceVars, lookupVars, colourVars, tokenVars, pointerVars, statsVars, dropVars>>
  /\ active' = TRUE
  /\ asked' = 0
  /\ fresh' = FALSE
  /\ UNCHANGED <<config, particles, emitTimer, count0, elapsed, timedEmits,
                 rateChanged, chunks, updating, note>>

\* stop()
Stop ==
  /\ UNCHANGED <<surfaceVars, lookupVars, colourVars, tokenVars, pointerVars, statsVars, dropVars>>
  /\ active' = FALSE
  /\ asked' = 0
  /\ fresh' = FALSE
  /\ UNCHANGED <<config, particles, emitTimer, count0, elapsed, timedEmits,
                 rateChanged, chunks, updating, note>>

EmitterNext ==
  \/ \E n \in EmitCounts : Emit(n)
  \/ \E n \in {MaxEmit, BurstDefault} : Burst(n)
  \/ \E d \in Deltas : Update(d)
  \/ \E p \in PartialConfigs : SetConfig(p)
  \/ Start
  \/ Stop

\* ------------------------------------------------ update, step by step ---
\* update() from its first statement to the loop test: the early return of
\* a stopped emitter, or emitTimer += delta.
UpdateEnter(delta) ==
  /\ UNCHANGED <<surfaceVars, lookupVars, colourVars, tokenVars, pointerVars, statsVars, dropVars>>
  /\ updating = NoCall
  /\ elapsed + delta <= MaxElapsed
  /\ fresh' = FALSE
  /\ IF Stopped
     THEN /\ asked' = 0 - 1
          /\ UNCHANGED <<config, particles, emitTimer, active, count0, elapsed,
                         timedEmits, rateChanged, chunks, updating, note>>
     ELSE /\ asked' = 0
          /\ emitTimer' = emitTimer + delta
          /\ updating' = delta
          /\ elapsed' = elapsed + delta
          /\ chunks' = chunks \cup {delta}
          /\ note' = NoteUpdate(note)
          /\ UNCHANGED <<config, particles, active, count0, timedEmits,
                         rateChanged>>

\* One round of the drain loop: the test held, emit(1) and the
\* subtraction.  The count of timed emissions stops at MaxDrain.
UpdateDrain ==
  /\ UNCHANGED <<surfaceVars, lookupVars, colourVars, tokenVars, pointerVars, statsVars, dropVars>>
  /\ updating # NoCall
  /\ DrainTest(emitTimer, config.emitRate)
  /\ particles' \in EmitOutcomes(particles, 1, config)
  /\ emitTimer' = DrainedTimer(emitTimer, config.emitRate)
  /\ timedEmits' = Min(timedEmits + 1, MaxDrain)
  /\ UNCHANGED <<config, active, count0, elapsed, rateChanged, chunks, asked,
                 fresh, updating, note>>

\* The loop test failed: the particles are updated and the call returns.
UpdateLeave ==
  /\ UNCHANGED <<surfaceVars, lookupVars, colourVars, tokenVars, pointerVars, statsVars, dropVars>>
  /\ updating # NoCall
  /\ ~DrainTest(emitTimer, config.emitRate)
  /\ particles' = [i \in 1 .. Len(particles) |->
                     ParticleUpdate(particles[i], updating)]
  /\ updating' = NoCall
  /\ UNCHANGED <<config, emitTimer, active, count0, elapsed, timedEmits,
                 rateChanged, chunks, asked, fresh, note>>

\* The rates an emitter can be given: presets' rates, 0 and a negative one.
DrainRates == {0 - 2, 0, 2, 3, 6}
DrainDeltas == {0, 1, 4}
DrainConfigs ==
  [count : {0, 1}, lifetime : {[min |-> 2, max |-> 4]},
   alpha : {[start |-> AlphaOne \div 2, end |-> 0]},
   emitRate : DrainRates, color : {Gold}]
DrainPartials == {[emitRate |-> r] : r \in DrainRates}

DrainInit == Constructed(DrainConfigs) /\ note = "none"

DrainNext ==
  \/ \E d \in DrainDeltas : UpdateEnter(d)
  \/ UpdateDrain
  \/ UpdateLeave
  \/ \E p \in DrainPartials : SetConfig(p)

\* ----------------------------------------------- emitters with a gradient -
\* PARTICLE_PRESETS.fire.color and .colorEnd, PARTICLE_PRESETS.ice.color and
\* PARTICLE_PRESETS.shadow.color
FireColor == 16737792
FireColorEnd == 16711680
IceColor == 65535
ShadowColor == 3342438

\* Emitters built from a preset with a colour gradient (colorEnd present)
\* and from one without.
GradientConfigs ==
  LET plain == [count : {1, 2}, lifetime : {[min |-> 2, max |-> 4]},
                alpha : {[start |-> AlphaOne \div 2, end |-> 0]},
                emitRate : {3}, color : {FireColor}]
  IN  plain \cup {MergeConfig(c, [colorEnd |-> FireColorEnd]) : c \in plain}

\* The overrides setConfig is given: an end colour, a colour, a count.
GradientPartials ==
  {[colorEnd |-> IceColor], [color |-> ShadowColor], [count |-> 3]}

GradientInit == Constructed(GradientConfigs) /\ note = "off"

GradientNext ==
  \/ Emit(1)
  \/ Burst(BurstDefault)
  \/ \E d \in Deltas : Update(d)
  \/ \E p \in GradientPartials : SetConfig(p)
  \/ Start
  \/ Stop

\* ======================================================= house lookups ===
\* The keys of HOUSE_COLORS and of HOUSE_PARTICLES: the same fourteen houses.
KnownHouses ==
  {"brobnar", "dis", "logos", "mars", "sanctum", "shadows", "untamed",
   "saurian", "staralliance", "unfathomable", "ekwidon", "geistoid",
   "skyborn", "redemption"}

\* Members every object literal inherits from Object.prototype: obj[key]
\* with one of these keys is a function or an object, never undefined.
ProtoKeys == {"constructor", "toString", "__proto__"}

\* The identifiers a card can carry: the known houses, a house missing
\* from the tables, no house at all (card?.house is undefined), and names
\* of inherited members.
HouseIds == KnownHouses \cup {"keyraken", "undefined"} \cup ProtoKeys

\* obj[key] for an object literal with the own keys `own`, by the name of
\* what is returned: the own entry, the inherited member, or undefined.
GetMember(own, key) ==
  IF key \in own THEN key
  ELSE IF key \in ProtoKeys THEN "Object.prototype." \o key
  ELSE "undefined"

\* HOUSE_COLORS[card?.house] || HOUSE_COLORS.shadows: the name of the entry
\* the expression yields.  Every own entry and every inherited member is
\* truthy.
HouseColors(h) ==
  IF GetMember(KnownHouses, h) = "undefined" THEN "shadows"
  ELSE GetMember(KnownHouses, h)

\* HOUSE_COLORS.*.primary; a value that is not an entry of the table has no
\* `primary` (0 - 1 stands for undefined).
Primary(entry) ==
  CASE entry = "brobnar" -> 16739125
    [] entry = "dis" -> 10040319
    [] entry = "logos" -> 49151
    [] entry = "mars" -> 16724787
    [] entry = "sanctum" -> 16766720
    [] entry = "shadows" -> 4868682
    [] entry = "untamed" -> 3394611
    [] entry = "saurian" -> 13408512
    [] entry = "staralliance" -> 6724095
    [] entry = "unfathomable" -> 26265
    [] entry = "ekwidon" -> 10053171
    [] entry = "geistoid" -> 10079436
    [] entry = "skyborn" -> 6737151
    [] entry = "redemption" -> 16750848
    [] OTHER -> 0 - 1

\* HOUSE_PARTICLES
HouseParticles(h) ==
  CASE h \in {"brobnar", "mars", "saurian"} -> "fire"
    [] h \in {"dis", "shadows"} -> "shadow"
    [] h \in {"logos", "staralliance", "ekwidon", "skyborn"} -> "sparkle"
    [] h \in {"sanctum", "redemption"} -> "holy"
    [] h = "untamed" -> "nature"
    [] h \in {"unfathomable", "geistoid"} -> "ice"

\* The keys of PARTICLE_PRESETS.
PresetNames == {"sparkle", "fire", "ice", "shadow", "holy", "nature"}

\* createHouseEmitter(house): presetName = HOUSE_PARTICLES[house] ||
\* 'sparkle', preset = PARTICLE_PRESETS[presetName], and the constructor's
\* default parameter replaces an undefined preset by PARTICLE_PRESETS.sparkle.
\* An inherited member is truthy and, turned into a key, names no preset.
HouseEmitterPreset(h) ==
  LET m == GetMember(KnownHouses, h)
      presetName == IF m = "undefined" THEN "sparkle"
                    ELSE IF h \in KnownHouses THEN HouseParticles(h)
                    ELSE m
      found == GetMember(PresetNames, presetName)
  IN  IF found \in PresetNames THEN found ELSE "sparkle"

\* ========================================================= PremiumCard ===
\* The cards the host can pass: id, house, type, facedown and whether the
\* token map has entries.
Cards ==
  {[id |-> 1, house |-> "brobnar", type |-> "creature", facedown |-> FALSE,
    tokens |-> TRUE],
   [id |-> 2, house |-> "keyraken", type |-> "action", facedown |-> FALSE,
    tokens |-> FALSE],
   [id |-> 3, house |-> "dis", type |-> "creature", facedown |-> TRUE,
    tokens |-> FALSE]}
Sizes == {"normal", "large"}
\* Every card with and without premium at the normal size, and one render
\* that differs from another in its size alone.
Props ==
  {p \in [card : Cards, size : Sizes, premium : BOOLEAN] :
     p.size = "large" => (p.card.id = 1 /\ p.premium)}

\* The dependency list of the effect: [card?.id, size, isPremium].
Deps(p) == <<p.card.id, p.size, p.premium>>

\* What pixi.js does when a destroyed Application's stage is used is not in
\* the repository: the access throws, or the stage is still there.
DestroyedUse == {"throws", "works"}

\* The transform of a new Container: no rotation, no skew.
Rest == [rotation |-> 0, skewX |-> 0, skewY |-> 0]

\* One run of the effect body: `const app = new Application()`, the closure
\* over the render's card and isPremium, and initApp() up to its first await.
\*   pc       where initApp stands: "init" awaits app.init, "load" awaits
\*            Assets.load, "done" returned, "threw" rejected
\*   art      what Assets.load answered: "pending", "loaded", "rejected"
\*   cleaned  where initApp stood when this run's cleanup ran, "no" before
\*   destroyed, canvas   the Application: destroy() was called; its canvas
\*            is a child of the container div
\*   stage    app.stage.children, by the name of the variable added
\*   layers   the children of cardContainer, in addChild order
\*   filter   the sprite carries the holographic filter
\*   loop     animate(): "none" never started, "pending" a frame callback
\*            is registered, "cancelled" it was cancelled, "dead" it threw
\*   staleTick  history: animate() ran after this run's cleanup
\*   hovered, mouse   isHovered and mousePos of the render that ran the
\*            effect: the values animate() closes over
\*   transform  rotation and skew of cardContainer, in the units of
\*            TickTransform
NewEffect(p) ==
  [pc |-> "init", card |-> p.card, premium |-> p.premium, art |-> "pending",
   cleaned |-> "no", destroyed |-> FALSE, canvas |-> FALSE, stage |-> <<>>,
   layers |-> <<>>, filter |-> FALSE, loop |-> "none", staleTick |-> FALSE,
   hovered |-> isHovered, mouse |-> mousePos, transform |-> Rest]

\* Variant of SceneLayers: the stats overlay is added for every creature,
\* facedown or not.
SceneLayersFaceBlind(card, premium) ==
  <<"shadow", "sprite", "frame">>
  \o (IF card.type = "creature" THEN <<"stats">> ELSE <<>>)
  \o (IF card.tokens THEN <<"tokens">> ELSE <<>>)

\* loadCard's try block after the await: the children of cardContainer.
SceneLayers(card, premium) ==
  <<"shadow", "sprite", "frame">>
  \o (IF card.type = "creature" /\ ~card.facedown THEN <<"stats">> ELSE <<>>)
  \o (IF card.tokens THEN <<"tokens">> ELSE <<>>)

\* createCardFrame(card, cardSize, houseColors): the strokes of the frame
\* graphics, in drawing order: the outer glow of a premium card in the
\* theme's primary colour, then the white inner border.
CardFrame(card, premium) ==
  (IF premium
   THEN <<[width |-> 3, color |-> Primary(HouseColors(card.house))]>>
   ELSE <<>>)
  \o <<[width |-> 1, color |-> 16777215]>>

\* The particle emitters a scene owns: PremiumCard.jsx does not import the
\* particle module and constructs no emitter.
SceneEmitters(e) == {}

\* createFallbackCard(app): the two children it adds to the stage.
FallbackChildren == <<"graphics", "text">>

\* useState(false), useState({ x: 0.5, y: 0.5 })
Centre == [x |-> PosOne \div 2, y |-> PosOne \div 2]

\* What one animate() call of effect run e does to the card container:
\* the tilt from the mousePos it closes over when the isHovered it closes
\* over is true, the idle oscillation otherwise.  Rotation is in units of
\* 1/40 rad for PosOne = 2, the skews in units of 1/80.
TickTransform(e) ==
  IF e.hovered
  THEN [mode |-> "tilt",
        rotation |-> 3 * (e.mouse.x - PosOne \div 2),
        skewX |-> 3 * (e.mouse.x - PosOne \div 2),
        skewY |-> 0 - 3 * (e.mouse.y - PosOne \div 2)]
  ELSE [mode |-> "idle", rotation |-> 0, skewX |-> 0, skewY |-> 0]

\* The position animate() writes to uMouse and uses for the tilt.
TickPointer(e) == e.mouse

\* The tilt / idle step of one animate() call, on the cardContainer of the
\* run's own Application if it has one: the tilt branch sets rotation and
\* skew, the idle branch sets the rotation and leaves the skew as it is.
ApplyTick(e) ==
  IF e.stage # <<"cardContainer">> THEN e
  ELSE IF TickTransform(e).mode = "tilt"
       THEN [e EXCEPT !.transform =
               [rotation |-> TickTransform(e).rotation,
                skewX |-> TickTransform(e).skewX,
                skewY |-> TickTransform(e).skewY]]
       ELSE [e EXCEPT !.transform.rotation = TickTransform(e).rotation]

\* startAnimationLoop(app): animate() runs once at once, then registers
\* itself with requestAnimationFrame and stores the id in animationRef.
StartLoop(e) ==
  [ApplyTick(e) EXCEPT !.loop = "pending", !.staleTick = (e.cleaned # "no")]

\* Variant of AfterLoad: the loop is started for every card.
AfterLoadAlways(e) == StartLoop(e)

\* The rest of initApp after `await loadCard(app)`.
AfterLoad(e) == IF e.premium THEN StartLoop(e) ELSE e

\* The cleanup the effect returns: cancel the stored frame id, destroy the
\* Application appRef holds and clear appRef.
CleanedUp(effs, cur) ==
  [i \in 1 .. Len(effs) |->
     LET a == IF i = animationRef /\ effs[i].loop = "pending"
              THEN [effs[i] EXCEPT !.loop = "cancelled"] ELSE effs[i]
         b == IF i = appRef
              THEN [a EXCEPT !.destroyed = TRUE, !.canvas = FALSE] ELSE a
     IN  IF i = cur THEN [b EXCEPT !.cleaned = effs[i].pc] ELSE b]

SurfaceInit ==
  /\ mounted = TRUE
  /\ props \in Props
  /\ eff = <<NewEffect(props)>>
  /\ appRef = 0
  /\ spriteRef = 0
  /\ animationRef = 0

\* app.init() resolves: the canvas is appended and loadCard starts the load.
InitResolves(i) ==
  /\ UNCHANGED <<emitterVars, lookupVars, colourVars, tokenVars, pointerVars, statsVars, dropVars>>
  /\ eff[i].pc = "init"
  /\ IF ~mounted
     THEN \* containerRef.current is null: appendChild throws
          /\ eff' = [eff EXCEPT ![i].pc = "threw"]
          /\ UNCHANGED appRef
     ELSE /\ eff' = [eff EXCEPT ![i].pc = "load", ![i].canvas = TRUE]
          /\ appRef' = i
  /\ UNCHANGED <<mounted, props, spriteRef, animationRef>>

\* Assets.load resolves: loadCard builds the scene, then initApp starts the
\* animation loop of a premium card.  `filterOk` is whether
\* createHolographicFilter() returns a filter or throws; a throw lands in
\* the catch block, after spriteRef was set and before any child reached
\* the stage.
LoadResolves(i, use, filterOk) ==
  /\ UNCHANGED <<emitterVars, lookupVars, colourVars, tokenVars, pointerVars, statsVars, dropVars>>
  /\ eff[i].pc = "load"
  /\ IF eff[i].destroyed /\ use = "throws"
     THEN \* app.stage throws in the try block and again in createFallbackCard
          /\ eff' = [eff EXCEPT ![i].pc = "threw", ![i].art = "loaded"]
          /\ UNCHANGED <<spriteRef, animationRef>>
     ELSE /\ eff' = [eff EXCEPT ![i] =
                       AfterLoad(
                         IF eff[i].premium /\ ~eff[i].card.facedown /\ ~filterOk
                         THEN [eff[i] EXCEPT
                                 !.pc = "done",
                                 !.art = "loaded",
                                 !.stage = FallbackChildren]
                         ELSE [eff[i] EXCEPT
                                 !.pc = "done",
                                 !.art = "loaded",
                                 !.stage = <<"cardContainer">>,
                                 !.layers = SceneLayers(eff[i].card, eff[i].premium),
                                 !.filter = (eff[i].premium /\ ~eff[i].card.facedown)])]
          /\ spriteRef' = i
          /\ animationRef' = IF eff[i].premium THEN i ELSE animationRef
  /\ UNCHANGED <<mounted, props, appRef>>

\* Assets.load rejects: the catch block logs and calls createFallbackCard.
LoadRejects(i, use) ==
  /\ UNCHANGED <<emitterVars, lookupVars, colourVars, tokenVars, pointerVars, statsVars, dropVars>>
  /\ eff[i].pc = "load"
  /\ IF eff[i].destroyed /\ use = "throws"
     THEN /\ eff' = [eff EXCEPT ![i].pc = "threw", ![i].art = "rejected"]
          /\ UNCHANGED animationRef
     ELSE /\ eff' = [eff EXCEPT ![i] =
                       AfterLoad([eff[i] EXCEPT
                         !.pc = "done",
                         !.art = "rejected",
                         !.stage = eff[i].stage \o FallbackChildren])]
          /\ animationRef' = IF eff[i].premium THEN i ELSE animationRef
  /\ UNCHANGED <<mounted, props, appRef, spriteRef>>

\* A render whose card id, size or isPremium differs: React runs the cleanup
\* of the last effect run, then the effect body again.
ChangeDeps(p) ==
  /\ UNCHANGED <<emitterVars, lookupVars, colourVars, tokenVars, pointerVars, statsVars, dropVars>>
  /\ mounted
  /\ Len(eff) < MaxEffects
  /\ Deps(p) # Deps(props)
  /\ props' = p
  /\ eff' = Append(CleanedUp(eff, Len(eff)), NewEffect(p))
  /\ appRef' = 0
  /\ UNCHANGED <<mounted, spriteRef, animationRef>>

\* The component unmounts: the ref is cleared and the cleanup runs.
Unmount ==
  /\ UNCHANGED <<emitterVars, lookupVars, colourVars, tokenVars, pointerVars, statsVars, dropVars>>
  /\ mounted
  /\ mounted' = FALSE
  /\ eff' = CleanedUp(eff, Len(eff))
  /\ appRef' = 0
  /\ UNCHANGED <<props, spriteRef, animationRef>>

\* The browser runs the registered frame callback: animate().
Animate(i, use) ==
  /\ UNCHANGED <<emitterVars, lookupVars, colourVars, tokenVars, pointerVars, statsVars, dropVars>>
  /\ eff[i].loop = "pending"
  /\ IF eff[i].destroyed /\ use = "throws"
     THEN \* app.stage.cardContainer throws before requestAnimationFrame
          /\ eff' = [eff EXCEPT ![i].loop = "dead",
                                ![i].staleTick = (eff[i].cleaned # "no")]
          /\ UNCHANGED animationRef
     ELSE /\ eff' = [eff EXCEPT ![i] =
                       [ApplyTick(eff[i]) EXCEPT
                          !.staleTick = (eff[i].cleaned # "no")]]
          /\ animationRef' = i
  /\ UNCHANGED <<mounted, props, appRef, spriteRef>>

SurfaceNext ==
  \/ \E i \in 1 .. Len(eff) : InitResolves(i)
  \/ \E i \in 1 .. Len(eff), use \in DestroyedUse, filterOk \in BOOLEAN :
       LoadResolves(i, use, filterOk)
  \/ \E i \in 1 .. Len(eff), use \in DestroyedUse : LoadRejects(i, use)
  \/ \E p \in Props : ChangeDeps(p)
  \/ Unmount
  \/ \E i \in 1 .. Len(eff), use \in DestroyedUse : Animate(i, use)

\* ============================================================ lerpColor ===
\* Channel values and the colours made of them.
ChannelValues == {0, 1, 128, 255}
Colours ==
  {r * 65536 + g * 256 + b : r \in ChannelValues, g \in ChannelValues,
                            b \in ChannelValues}

ColourInit ==
  /\ colorEnd \in Colours
  /\ color \in Colours
  /\ lifeRatio = RatioDen
  /\ lerped = 0 - 1

\* Particle.update's colour step: lerpColor(this.colorEnd, this.color,
\* lifeRatio).
Lerp(k) ==
  /\ lerped = 0 - 1
  /\ lifeRatio' = k
  /\ lerped' = LerpColor(colorEnd, color, k)
  /\ UNCHANGED <<colorEnd, color>>
  /\ UNCHANGED <<emitterVars, surfaceVars, lookupVars, tokenVars, pointerVars, statsVars, dropVars>>

ColourNext == \E k \in 0 .. RatioDen : Lerp(k)

NoColour ==
  /\ colorEnd = 0
  /\ color = 0
  /\ lifeRatio = RatioDen
  /\ lerped = 0 - 1

\* ==================================================== createTokenOverlay ===
\* The keys of tokenColors (four of the seven; the other three are read the
\* same way).
TokenColorKeys == {"damage", "amber", "power", "armor"}

\* The token types a card can carry: recognised ones, one that is in no
\* table, and the name of a member tokenColors inherits.
TokenTypes == TokenColorKeys \cup {"unknownType", "constructor"}
TokenCounts == {0, 2}

\* What pixi.js does with a fill colour that is a function is not in the
\* repository: Graphics.fill throws, or the disc is drawn.
BadColourUse == {"throws", "draws"}

\* The token maps: up to MaxTokens entries with distinct types, in every
\* iteration order.
RECURSIVE TokenMaps(_)
TokenMaps(n) ==
  IF n = 0 THEN {<<>>}
  ELSE LET shorter == TokenMaps(n - 1)
       IN  shorter \cup
           UNION {{Append(m, <<t, c>>) :
                     t \in TokenTypes \ {m[i][1] : i \in 1 .. Len(m)},
                     c \in TokenCounts} :
                    m \in {x \in shorter : Len(x) = n - 1}}

\* The disc of one rendered entry: col = index % 3, row = floor(index / 3).
DiscAt(type, count, index) ==
  [type |-> type, count |-> count, col |-> index % 3, row |-> index \div 3]

\* The loop of createTokenOverlay from entry e on, `index` discs rendered so
\* far: an entry is rendered when count > 0 && tokenColors[tokenType].
RECURSIVE TokenDiscs(_, _, _)
TokenDiscs(m, e, index) ==
  IF e > Len(m) THEN <<>>
  ELSE IF m[e][2] > 0 /\ GetMember(TokenColorKeys, m[e][1]) # "undefined"
       THEN <<DiscAt(m[e][1], m[e][2], index)>> \o TokenDiscs(m, e + 1, index + 1)
       ELSE TokenDiscs(m, e + 1, index)

TokenInit ==
  /\ tokens \in TokenMaps(MaxTokens)
  /\ discs = <<>>
  /\ overlay = "none"

\* createTokenOverlay(card, size)
CreateTokenOverlay(use) ==
  /\ overlay = "none"
  /\ LET all == TokenDiscs(tokens, 1, 0)
         bad == {i \in 1 .. Len(all) : all[i].type \notin TokenColorKeys}
     IN  IF bad # {} /\ use = "throws"
         THEN \* bg.fill throws at the first such disc; the discs before it
              \* are in a container that is never returned
              /\ discs' = <<>>
              /\ overlay' = "threw"
         ELSE /\ discs' = all
              /\ overlay' = "built"
  /\ UNCHANGED tokens
  /\ UNCHANGED <<emitterVars, surfaceVars, lookupVars, colourVars, pointerVars, statsVars, dropVars>>

TokenNext == \E use \in BadColourUse : CreateTokenOverlay(use)

NoTokens ==
  /\ tokens = <<>>
  /\ discs = <<>>
  /\ overlay = "none"

\* =================================================== createStatsOverlay ===
\* null, where a number is expected (Undefined is undefined)
Null == 0 - 2

\* The values a stat of the card data can have: absent, null, or a number.
PowerValues == {Undefined, Null, 0, 3, 12}
ModifiedPowerValues == {Undefined, Null, 0, 5}
ArmorValues == {Undefined, Null, 0, 2}

\* Number.prototype.toString for a non-negative integer: its decimal
\* digits.
RECURSIVE NumberToString(_)
NumberToString(n) ==
  IF n < 10 THEN <<n>> ELSE NumberToString(n \div 10) \o <<n % 10>>

\* v?.toString(): undefined for undefined and null
OptToString(v) == IF v \in {Undefined, Null} THEN <<>> ELSE NumberToString(v)

\* a || b for strings and undefined (<<>> stands for undefined; every
\* toString result is a non-empty string and truthy)
OrText(a, b) == IF a = <<>> THEN b ELSE a

\* card.modifiedPower?.toString() || card.power?.toString() || '0'
PowerText(card) ==
  OrText(OptToString(card.modifiedPower), OrText(OptToString(card.power), <<0>>))

\* card.armor?.toString() || '0'
ArmorText(card) == OrText(OptToString(card.armor), <<0>>)

\* The children createStatsOverlay adds: the power text when
\* card.power !== undefined, the armor text when card.armor > 0
\* (undefined > 0 and null > 0 are false).
StatsChildren(card) ==
  (IF card.power # Undefined
   THEN <<[stat |-> "power", text |-> PowerText(card)]>> ELSE <<>>)
  \o (IF card.armor > 0
      THEN <<[stat |-> "armor", text |-> ArmorText(card)]>> ELSE <<>>)

StatsInit ==
  /\ statCard \in [power : PowerValues, modifiedPower : ModifiedPowerValues,
                    armor : ArmorValues]
  /\ numerals = <<>>
  /\ statsOverlay = "none"

\* createStatsOverlay(card, size)
CreateStatsOverlay ==
  /\ statsOverlay = "none"
  /\ numerals' = StatsChildren(statCard)
  /\ statsOverlay' = "built"
  /\ UNCHANGED statCard
  /\ UNCHANGED <<emitterVars, surfaceVars, lookupVars, colourVars, tokenVars,
                 pointerVars, dropVars>>

StatsNext == CreateStatsOverlay

NoStats ==
  /\ statCard = [power |-> Undefined, modifiedPower |-> Undefined,
                 armor |-> Undefined]
  /\ numerals = <<>>
  /\ statsOverlay = "none"

\* ---------------------------------------------------- lookup actions ----
LookupInit ==
  /\ house \in HouseIds
  /\ theme = "not evaluated"
  /\ preset = "not created"
  /\ themeCalls = 0
  /\ presetCalls = 0

\* A render of PremiumCard evaluates houseColors.
EvalHouseColors ==
  /\ themeCalls < MaxCalls
  /\ theme' = HouseColors(house)
  /\ themeCalls' = themeCalls + 1
  /\ UNCHANGED <<house, preset, presetCalls>>
  /\ UNCHANGED <<emitterVars, surfaceVars, colourVars, tokenVars, pointerVars, statsVars, dropVars>>

\* createHouseEmitter(house, bounds)
CreateHouseEmitter ==
  /\ presetCalls < MaxCalls
  /\ preset' = HouseEmitterPreset(house)
  /\ presetCalls' = presetCalls + 1
  /\ UNCHANGED <<house, theme, themeCalls>>
  /\ UNCHANGED <<emitterVars, surfaceVars, colourVars, tokenVars, pointerVars, statsVars, dropVars>>

LookupNext == EvalHouseColors \/ CreateHouseEmitter

NoLookup ==
  /\ house = "undefined"
  /\ theme = "not evaluated"
  /\ preset = "not created"
  /\ themeCalls = 0
  /\ presetCalls = 0

\* ============================================================ Droppable ===
\* The own keys of validTargets: the six zones a card can be dragged from.
KnownZones == {"hand", "play area", "discard", "archives", "deck", "purged"}

\* validTargets
ValidTargets ==
  ("hand" :> <<"play area", "discard", "deck", "archives", "purged">>)
  @@ ("play area" :> <<"discard", "hand", "deck", "archives", "purged">>)
  @@ ("discard" :> <<"archives", "hand", "deck", "play area", "purged">>)
  @@ ("archives" :> <<"hand", "deck", "play area", "discard", "purged">>)
  @@ ("deck" :> <<"hand", "discard", "archives", "play area", "purged">>)
  @@ ("purged" :> <<"deck", "play area", "discard", "hand", "archives">>)

\* The values of a boolean prop or flag: true, false, or not given.
Flags == {"true", "false", "undefined"}

\* The zone names an item or a Droppable can carry: the known zones, a
\* zone missing from validTargets, no zone at all, and names of inherited
\* members.
ZoneNames == KnownZones \cup {"being played", "undefined"} \cup ProtoKeys

\* The dragged items: { card, source }, of the card only canPlay is read.
DragItems == [source : ZoneNames, canPlay : Flags]

\* list.some((target) => target === zone)
Some(list, zone) == \E i \in DOMAIN list : list[i] = zone

\* The manual-mode branch of canDrop:
\* validTargets[item.source] && validTargets[item.source].some(...).
\* For a source that is no own key the read yields undefined, which `&&`
\* returns as it is, or an inherited member, which is truthy and has no
\* `some`: the call throws a TypeError.
ManualCanDrop(item, zone) ==
  IF GetMember(KnownZones, item.source) = "undefined" THEN "undefined"
  ELSE IF item.source \notin KnownZones THEN "throws"
  ELSE IF Some(ValidTargets[item.source], zone) THEN "true"
  ELSE "false"

\* The rest of canDrop, outside manual mode: item.card.canPlay as it is
\* for a drag from hand to the play area or the discard pile, else false.
PlayCanDrop(item, zone) ==
  IF \/ (item.source = "hand" /\ zone = "play area")
     \/ (item.source = "hand" /\ zone = "discard")
  THEN item.canPlay
  ELSE "false"

\* canDrop: (_, monitor) => ... of a Droppable with the props manual and
\* zone, for the item monitor.getItem() returns.
CanDropResult(item, manual, zone) ==
  IF manual = "true" THEN ManualCanDrop(item, zone) ELSE PlayCanDrop(item, zone)

\* ------------------------------------------------------ Droppable actions --
DropInit ==
  /\ dragItem \in DragItems
  /\ dropZone \in ZoneNames
  /\ manualMode \in Flags
  /\ canDrop = "not evaluated"

\* The monitor asks the Droppable whether the dragged item can be dropped.
EvalCanDrop ==
  /\ canDrop = "not evaluated"
  /\ canDrop' = CanDropResult(dragItem, manualMode, dropZone)
  /\ UNCHANGED <<dragItem, dropZone, manualMode>>
  /\ UNCHANGED <<emitterVars, surfaceVars, lookupVars, colourVars, tokenVars,
                 pointerVars, statsVars>>

\* The drag ends and another item is picked up.
BeginDrag(item) ==
  /\ canDrop \notin {"not evaluated", "throws"}
  /\ dragItem' = item
  /\ canDrop' = "not evaluated"
  /\ UNCHANGED <<dropZone, manualMode>>
  /\ UNCHANGED <<emitterVars, surfaceVars, lookupVars, colourVars, tokenVars,
                 pointerVars, statsVars>>

\* The board renders the Droppable with another manualMode.
SetManualMode(manual) ==
  /\ canDrop \notin {"not evaluated", "throws"}
  /\ manual # manualMode
  /\ manualMode' = manual
  /\ canDrop' = "not evaluated"
  /\ UNCHANGED <<dragItem, dropZone>>
  /\ UNCHANGED <<emitterVars, surfaceVars, lookupVars, colourVars, tokenVars,
                 pointerVars, statsVars>>

DropNext ==
  \/ EvalCanDrop
  \/ \E item \in DragItems : BeginDrag(item)
  \/ \E manual \in Flags : SetManualMode(manual)

NoDrop ==
  /\ dragItem = [source |-> "undefined", canPlay |-> "undefined"]
  /\ dropZone = "undefined"
  /\ manualMode = "undefined"
  /\ canDrop = "not evaluated"

\* ---------------------------------------------------- specifications -----
\* The emitter on its own: no surface is mounted.
\* ------------------------------------------------------ pointer events ---
\* The normalised positions handleMouseMove computes from the event.
Positions == {Centre, [x |-> 0, y |-> PosOne], [x |-> PosOne, y |-> 0]}

NoEvent ==
  [type |-> "none", onClick |-> <<>>, onMouseOver |-> <<>>, onMouseOut |-> 0]

PointerInit ==
  /\ isHovered = FALSE
  /\ mousePos = Centre
  /\ lastEvent = NoEvent

\* handleMouseEnter
MouseEnter ==
  /\ mounted
  /\ ~isHovered
  /\ isHovered' = TRUE
  /\ lastEvent' = [NoEvent EXCEPT
                     !.type = "enter",
                     !.onMouseOver = <<[image |-> props.card, size |-> "normal"]>>]
  /\ UNCHANGED mousePos
  /\ UNCHANGED <<emitterVars, surfaceVars, lookupVars, colourVars, tokenVars, statsVars, dropVars>>

\* handleMouseMove
MouseMove(pos) ==
  /\ mounted
  /\ isHovered
  /\ mousePos' = pos
  /\ lastEvent' = [NoEvent EXCEPT !.type = "move"]
  /\ UNCHANGED isHovered
  /\ UNCHANGED <<emitterVars, surfaceVars, lookupVars, colourVars, tokenVars, statsVars, dropVars>>

\* handleMouseLeave
MouseLeave ==
  /\ mounted
  /\ isHovered
  /\ isHovered' = FALSE
  /\ mousePos' = Centre
  /\ lastEvent' = [NoEvent EXCEPT !.type = "leave", !.onMouseOut = 1]
  /\ UNCHANGED <<emitterVars, surfaceVars, lookupVars, colourVars, tokenVars, statsVars, dropVars>>

\* handleClick
Click ==
  /\ mounted
  /\ isHovered
  /\ lastEvent' = [NoEvent EXCEPT !.type = "click", !.onClick = <<props.card>>]
  /\ UNCHANGED <<isHovered, mousePos>>
  /\ UNCHANGED <<emitterVars, surfaceVars, lookupVars, colourVars, tokenVars, statsVars, dropVars>>

PointerNext ==
  \/ SurfaceNext
  \/ MouseEnter
  \/ \E pos \in Positions : MouseMove(pos)
  \/ MouseLeave
  \/ Click

\* One card at one size, shown with and without premium.
OneCardProps == {p \in Props : p.card.id = 1 /\ p.size = "normal"}

\* The pointer at the centre of the surface or at its lower left corner.
OneCardPositions == {pos \in Positions : pos.x <= pos.y}

OneCardInit ==
  /\ mounted = TRUE
  /\ props \in OneCardProps
  /\ eff = <<NewEffect(props)>>
  /\ appRef = 0
  /\ spriteRef = 0
  /\ animationRef = 0

OneCardNext ==
  \/ \E i \in 1 .. Len(eff) : InitResolves(i)
  \/ \E i \in 1 .. Len(eff), use \in DestroyedUse, filterOk \in BOOLEAN :
       LoadResolves(i, use, filterOk)
  \/ \E i \in 1 .. Len(eff), use \in DestroyedUse : LoadRejects(i, use)
  \/ \E p \in OneCardProps : ChangeDeps(p)
  \/ Unmount
  \/ \E i \in 1 .. Len(eff), use \in DestroyedUse : Animate(i, use)
  \/ MouseEnter
  \/ \E pos \in OneCardPositions : MouseMove(pos)
  \/ MouseLeave
  \/ Click

NoSurface ==
  /\ mounted = FALSE
  /\ props = [card |-> CHOOSE c \in Cards : c.id = 1, size |-> "normal",
              premium |-> FALSE]
  /\ eff = <<>>
  /\ appRef = 0
  /\ spriteRef = 0
  /\ animationRef = 0

\* The surface on its own: PremiumCard.jsx constructs no emitter.
NoEmitter ==
  /\ config = [count |-> 0, lifetime |-> [min |-> 1, max |-> 1],
               alpha |-> [start |-> AlphaOne, end |-> 0], emitRate |-> 2]
  /\ particles = <<>>
  /\ emitTimer = 0
  /\ active = FALSE
  /\ count0 = 0
  /\ elapsed = 0
  /\ timedEmits = 0
  /\ rateChanged = FALSE
  /\ chunks = {}
  /\ asked = 0
  /\ fresh = FALSE
  /\ updating = NoCall
  /\ note = "off"

EmitterAlone == PointerInit /\ EmitterInit /\ NoSurface /\ NoLookup /\ NoColour /\ NoTokens /\ NoStats /\ NoDrop
EmitterSpec == EmitterAlone /\ [][EmitterNext]_vars

SurfaceAlone == PointerInit /\ SurfaceInit /\ NoEmitter /\ NoLookup /\ NoColour /\ NoTokens /\ NoStats /\ NoDrop
SurfaceSpec == SurfaceAlone /\ [][SurfaceNext]_vars
PointerSpec == SurfaceAlone /\ [][PointerNext]_vars

OneCardAlone ==
  PointerInit /\ OneCardInit /\ NoEmitter /\ NoLookup /\ NoColour /\ NoTokens /\ NoStats /\ NoDrop
OneCardSpec == OneCardAlone /\ [][OneCardNext]_vars

LookupAlone == PointerInit /\ LookupInit /\ NoEmitter /\ NoSurface /\ NoColour /\ NoTokens /\ NoStats /\ NoDrop
LookupSpec == LookupAlone /\ [][LookupNext]_vars

ColourAlone == PointerInit /\ ColourInit /\ NoEmitter /\ NoSurface /\ NoLookup /\ NoTokens /\ NoStats /\ NoDrop
ColourSpec == ColourAlone /\ [][ColourNext]_vars

GradientAlone == PointerInit /\ GradientInit /\ NoSurface /\ NoLookup /\ NoColour /\ NoTokens /\ NoStats /\ NoDrop
GradientSpec == GradientAlone /\ [][GradientNext]_vars

DrainAlone ==
  PointerInit /\ DrainInit /\ NoSurface /\ NoLookup /\ NoColour /\ NoTokens /\ NoStats /\ NoDrop
DrainSpec == DrainAlone /\ [][DrainNext]_vars
\* An update call that has started keeps running: the thread executes the
\* next round of the loop, or leaves it, whichever the test says.
FairDrainSpec ==
  DrainSpec /\ WF_vars(UpdateDrain) /\ WF_vars(UpdateLeave)

StatsAlone ==
  PointerInit /\ StatsInit /\ NoEmitter /\ NoSurface /\ NoLookup /\ NoColour /\ NoTokens /\ NoDrop
StatsSpec == StatsAlone /\ [][StatsNext]_vars

TokenAlone == PointerInit /\ TokenInit /\ NoEmitter /\ NoSurface /\ NoLookup /\ NoColour /\ NoStats /\ NoDrop
TokenSpec == TokenAlone /\ [][TokenNext]_vars

DropAlone ==
  PointerInit /\ DropInit /\ NoEmitter /\ NoSurface /\ NoLookup /\ NoColour /\ NoTokens
  /\ NoStats
DropSpec == DropAlone /\ [][DropNext]_vars

Init ==
  EmitterAlone \/ GradientAlone \/ DrainAlone \/ StatsAlone \/ SurfaceAlone
  \/ OneCardAlone \/ LookupAlone \/ ColourAlone \/ TokenAlone \/ DropAlone
Next ==
  EmitterNext \/ GradientNext \/ DrainNext \/ StatsNext \/ PointerNext \/ LookupNext \/ ColourNext \/ TokenNext
  \/ DropNext
Spec == Init /\ [][Next]_vars

\* ================================================= emitter properties ====
\* A particle that a reset has seeded and no update has advanced since: the
\* constructor leaves alpha at 1, reset sets it to alphaStart.
JustReseeded(p) ==
  /\ p.active
  /\ p.lifetime = p.maxLifetime
  /\ p.alpha = p.alphaStart
  /\ p.alpha # AlphaOne

\* C1: whatever emit, burst and update calls were made, the number of active
\* particles never exceeds the count the pool was built with.
PoolBound == ActiveCount(particles) <= Max(0, count0)

\* C1 witness: the last call was an emit or burst asking for more particles
\* than the pool of two or more holds; it reseeded a particle and the whole
\* pool is active.
PoolBoundWitness ==
  /\ asked > Len(particles)
  /\ Len(particles) >= 2
  /\ ActiveCount(particles) = Len(particles)
  /\ \E i \in 1 .. Len(particles) : JustReseeded(particles[i])

Advanced(i) == particles'[i] # particles[i]

\* C6 (as claimed): after every update each advanced particle's alpha lies
\* between the configured alphaStart and alphaEnd, and it equals alphaEnd
\* once the remaining lifetime has reached 0.
AlphaWithinConfigured ==
  [][elapsed' # elapsed =>
       \A i \in 1 .. Len(particles') :
         Advanced(i) =>
           /\ Min(config.alpha.start, config.alpha.end) <= particles'[i].alpha
           /\ particles'[i].alpha <= Max(config.alpha.start, config.alpha.end)
           /\ (particles'[i].lifetime <= 0 =>
                 particles'[i].alpha = config.alpha.end)]_vars

\* C7 (as claimed): right after construction the pool holds max(0, count)
\* particles and every one of them is inactive.
PoolStartsInactive ==
  fresh => /\ Len(particles) = Max(0, config.count)
           /\ \A i \in 1 .. Len(particles) : ~particles[i].active

StopFreezes ==
  [][(~active /\ asked' <= 0) =>
       /\ particles' = particles
       /\ emitTimer' = emitTimer
       /\ elapsed' = elapsed
       /\ timedEmits' = timedEmits]_vars

\* C18 witness: the emitter is stopped and the last call was an update that
\* returned at once, with a particle in flight partway through its life
\* and part of an emission period in the accumulator.
StopFreezesWitness ==
  /\ ~active
  /\ asked = 0 - 1
  /\ emitTimer > 0
  /\ \E i \in 1 .. Len(particles) :
       /\ particles[i].active
       /\ 0 < particles[i].lifetime
       /\ particles[i].lifetime < particles[i].maxLifetime

\* ================================================= surface properties ====
\* The fixed z-order, back to front.
ZOrder ==
  <<"shadow", "base-frame", "art", "mask", "overlay", "text", "stats",
    "effect", "token", "highlight">>

\* The layer each child of a scene draws: createCardFrame draws the frame
\* border, createFallbackCard's panel stands in for the card base.
LayerOf(child) ==
  CASE child = "shadow" -> "shadow"
    [] child = "frame" -> "base-frame"
    [] child = "graphics" -> "base-frame"
    [] child = "sprite" -> "art"
    [] child = "text" -> "text"
    [] child = "stats" -> "stats"
    [] child = "tokens" -> "token"

Rank(layer) == CHOOSE r \in 1 .. Len(ZOrder) : ZOrder[r] = layer

\* The children of effect run i's scene in composition order.
Composition(i) ==
  IF eff[i].stage = <<"cardContainer">> THEN eff[i].layers ELSE eff[i].stage

\* Effect run i has a scene on an Application that was not destroyed.
LiveScene(i) == eff[i].stage # <<>> /\ ~eff[i].destroyed

\* C3 (as claimed): when the cleanup ran while app.init or the art load of an
\* effect run was pending, the completion is discarded: no scene is built,
\* no canvas is added, appRef is not set to its Application and no animation
\* loop is started.
PendingResultDiscarded ==
  \A i \in 1 .. Len(eff) :
    eff[i].cleaned \in {"init", "load"} =>
      /\ eff[i].stage = <<>>
      /\ (eff[i].cleaned = "init" => ~eff[i].canvas)
      /\ appRef # i
      /\ eff[i].loop = "none"

\* C4 (as claimed): a surface never has two live scenes at once.
AtMostOneScene ==
  Cardinality({i \in 1 .. Len(eff) : LiveScene(i)}) <= 1

\* C5 (as claimed): once the cleanup of an effect run has run, no frame
\* callback of its animation loop is registered and animate() never runs for
\* it again.
NoTickAfterTeardown ==
  \A i \in 1 .. Len(eff) :
    eff[i].cleaned # "no" => (eff[i].loop # "pending" /\ ~eff[i].staleTick)

\* C8 (as claimed): the children of every built scene follow the fixed
\* z-order: a later child never draws a layer that is below an earlier one.
LayersFollowZOrder ==
  \A i \in 1 .. Len(eff) :
    \A a, b \in 1 .. Len(Composition(i)) :
      a < b => Rank(LayerOf(Composition(i)[a])) < Rank(LayerOf(Composition(i)[b]))

\* C9 (as claimed): whenever the art load was rejected, initApp returns
\* without an exception and the scene is the fallback: the placeholder panel
\* and the glyph, and no card container with its layers.
RejectedLoadFallsBack ==
  \A i \in 1 .. Len(eff) :
    eff[i].art = "rejected" =>
      /\ eff[i].pc = "done"
      /\ eff[i].stage = FallbackChildren
      /\ eff[i].layers = <<>>
      /\ ~eff[i].filter


\* ================================================== lookup properties ====
\* C12 (as claimed): every evaluation of the theme lookup yields the house's
\* own entry for a known house and the default entry (shadows) for every
\* other identifier, and every created emitter runs the house's own preset
\* for a known house and the default preset (sparkle) for every other one.
LookupsFallBack ==
  /\ themeCalls > 0 =>
        theme = (IF house \in KnownHouses THEN house ELSE "shadows")
  /\ presetCalls > 0 =>
        preset = (IF house \in KnownHouses THEN HouseParticles(house)
                  ELSE "sparkle")


\* ================================================== scene properties =====
\* Effect run i built the card scene: the art loaded and loadCard's try
\* block ran to its end.
CardSceneBuilt(i) ==
  eff[i].art = "loaded" /\ eff[i].stage = <<"cardContainer">>

\* C11 (as claimed): the built scene of a premium card that is not facedown
\* has the glow stroke in the primary colour of the card's house, the
\* shimmer filter on the art sprite, and an active particle emitter that
\* runs the preset of the card's house.
PremiumSceneComplete ==
  \A i \in 1 .. Len(eff) :
    (CardSceneBuilt(i) /\ eff[i].premium /\ ~eff[i].card.facedown) =>
      /\ CardFrame(eff[i].card, eff[i].premium)[1] =
           [width |-> 3, color |-> Primary(HouseColors(eff[i].card.house))]
      /\ eff[i].filter
      /\ \E em \in SceneEmitters(eff[i]) :
           em.active /\ em.preset = HouseEmitterPreset(eff[i].card.house)


\* ================================================== colour properties ====
\* The value of one channel before rounding, times RatioDen.
ExactChannel(c1, c2, k) == c1 * RatioDen + (c2 - c1) * k

\* Channel value out lies between the two inputs and is an integer nearest
\* to the exact interpolation of this channel's two inputs.
ChannelInterpolated(out, c1, c2, k) ==
  /\ Min(c1, c2) <= out
  /\ out <= Max(c1, c2)
  /\ 2 * (out * RatioDen - ExactChannel(c1, c2, k)) <= RatioDen
  /\ 2 * (ExactChannel(c1, c2, k) - out * RatioDen) <= RatioDen

\* C13: the interpolated colour is the base colour at lifeRatio 1 and
\* colorEnd at lifeRatio 0, and each of its channels is the nearest integer
\* to the linear interpolation of the same channel of the two inputs and
\* lies between them.
LerpRoundTrip ==
  lerped # 0 - 1 =>
    /\ lifeRatio = RatioDen => lerped = color
    /\ lifeRatio = 0 => lerped = colorEnd
    /\ ChannelInterpolated(Red(lerped), Red(colorEnd), Red(color), lifeRatio)
    /\ ChannelInterpolated(Green(lerped), Green(colorEnd), Green(color), lifeRatio)
    /\ ChannelInterpolated(Blue(lerped), Blue(colorEnd), Blue(color), lifeRatio)
    /\ lerped < 16777216

\* C13 witness: an interpolation strictly inside the range, between colours
\* that differ in every channel, whose three result channels differ from
\* one another and whose red channel had to be rounded up.
LerpRoundTripWitness ==
  /\ lerped # 0 - 1
  /\ 0 < lifeRatio /\ lifeRatio < RatioDen
  /\ Red(colorEnd) # Red(color)
  /\ Green(colorEnd) > Green(color)
  /\ Blue(colorEnd) < Blue(color)
  /\ Cardinality({Red(lerped), Green(lerped), Blue(lerped)}) = 3
  /\ Red(lerped) * RatioDen > ExactChannel(Red(colorEnd), Red(color), lifeRatio)


\* =================================================== token properties ====
\* The entries the claim says are rendered: count > 0 and a recognised type.
RECURSIVE Recognised(_, _)
Recognised(m, e) ==
  IF e > Len(m) THEN <<>>
  ELSE IF m[e][2] > 0 /\ m[e][1] \in TokenColorKeys
       THEN <<m[e]>> \o Recognised(m, e + 1)
       ELSE Recognised(m, e + 1)

\* C14 (as claimed): createTokenOverlay raises no error and the token layer
\* holds one disc for exactly the entries with count > 0 and a recognised
\* type, in map order, the i-th disc (from 0) at column i mod 3 and row
\* floor(i / 3).
TokenGrid ==
  overlay # "none" =>
    /\ overlay = "built"
    /\ Len(discs) = Len(Recognised(tokens, 1))
    /\ \A i \in 1 .. Len(discs) :
         /\ discs[i].type = Recognised(tokens, 1)[i][1]
         /\ discs[i].count = Recognised(tokens, 1)[i][2]
         /\ discs[i].col = (i - 1) % 3
         /\ discs[i].row = (i - 1) \div 3


\* How many children of effect run i's card container are `child`.
Children(i, child) ==
  Cardinality({k \in 1 .. Len(eff[i].layers) : eff[i].layers[k] = child})

\* C15: every card scene built after a successful art load (the filter, if
\* one was due, was constructed) has exactly one art sprite and one frame,
\* a stats sub-tree iff the card is a creature and not facedown, a token
\* sub-tree iff the token map is non-empty, the shader filter iff the card
\* is premium and not facedown, and no glow stroke on a non-premium frame.
SceneComposition ==
  \A i \in 1 .. Len(eff) :
    CardSceneBuilt(i) =>
      LET c == eff[i].card
          frame == CardFrame(c, eff[i].premium)
      IN  /\ Children(i, "sprite") = 1
          /\ Children(i, "frame") = 1
          /\ Children(i, "shadow") = 1
          /\ Children(i, "stats") =
               (IF c.type = "creature" /\ ~c.facedown THEN 1 ELSE 0)
          /\ Children(i, "tokens") = (IF c.tokens THEN 1 ELSE 0)
          /\ Len(eff[i].layers) =
               3 + Children(i, "stats") + Children(i, "tokens")
          /\ eff[i].filter <=> (eff[i].premium /\ ~c.facedown)
          /\ ~eff[i].premium => \A k \in 1 .. Len(frame) : frame[k].width # 3

\* C15 witness: the scenes of a facedown premium creature (no stats, no
\* filter) and of a face-up non-premium creature with tokens were built.
SceneCompositionWitness ==
  /\ \E i \in 1 .. Len(eff) :
       /\ CardSceneBuilt(i)
       /\ eff[i].card.type = "creature" /\ eff[i].card.facedown
       /\ eff[i].premium
  /\ \E i \in 1 .. Len(eff) :
       /\ CardSceneBuilt(i)
       /\ eff[i].card.type = "creature" /\ ~eff[i].card.facedown
       /\ eff[i].card.tokens /\ ~eff[i].premium

\* C19 (as claimed): when the art of a premium card that is not facedown
\* loaded and the filter could not be constructed, initApp still completes
\* with the card scene: the art sprite and every other layer the card
\* calls for, only without the filter.
EffectFailureKeepsCard ==
  \A i \in 1 .. Len(eff) :
    (/\ eff[i].art = "loaded" /\ eff[i].pc = "done"
     /\ eff[i].premium /\ ~eff[i].card.facedown /\ ~eff[i].filter) =>
      /\ eff[i].stage = <<"cardContainer">>
      /\ eff[i].layers = SceneLayers(eff[i].card, eff[i].premium)


\* ================================================= pointer properties ====
\* Effect run i is the surface's running premium scene: its card scene is
\* built, its Application is live and its frame callback is registered.
Animating(i) ==
  /\ mounted
  /\ CardSceneBuilt(i)
  /\ eff[i].cleaned = "no"
  /\ ~eff[i].destroyed
  /\ eff[i].loop = "pending"

\* C16 (as claimed): the tick that is due applies the tilt computed from the
\* current pointer position when the pointer is over the surface and the
\* idle rotation when it is not.
TickFollowsHover ==
  \A i \in 1 .. Len(eff) :
    Animating(i) =>
      TickTransform(eff[i]) =
        TickTransform([hovered |-> isHovered, mouse |-> mousePos])

\* C17 (as claimed): the position the tick that is due writes to the
\* shader's pointer uniform is the stored pointer position, the one of the
\* most recent move event.
TickReadsLatestPointer ==
  \A i \in 1 .. Len(eff) :
    (Animating(i) /\ spriteRef # 0 /\ eff[spriteRef].filter) =>
      TickPointer(eff[i]) = mousePos

\* C20 (as claimed): the handler of a click calls onClick once, with the
\* card, and no other host callback; the handlers of the other events never
\* call onClick; the hover callback of an enter gets a payload with the card
\* and the size of the surface.
ClickForwardsCard ==
  /\ lastEvent.type = "click" =>
       /\ lastEvent.onClick = <<props.card>>
       /\ lastEvent.onMouseOver = <<>>
       /\ lastEvent.onMouseOut = 0
  /\ lastEvent.type # "click" => lastEvent.onClick = <<>>
  /\ lastEvent.type = "enter" =>
       /\ Len(lastEvent.onMouseOver) = 1
       /\ lastEvent.onMouseOver[1].image = props.card
       /\ lastEvent.onMouseOver[1].size = props.size


\* ================================================ gradient properties ====
\* C21 (as claimed): the colour of every active particle that has a
\* colorEnd is the per-channel interpolation between colorEnd and the
\* colour it was spawned with, at the ratio remaining lifetime / original
\* lifetime, however many update calls brought it there.
ColourFollowsRatio ==
  \A i \in 1 .. Len(particles) :
    (particles[i].active /\ particles[i].colorEnd # Undefined) =>
      particles[i].color =
        LerpColorAt(particles[i].colorEnd, particles[i].base,
                    particles[i].lifetime, particles[i].maxLifetime)


\* The particles an emit or burst step activated.
Activated == {i \in 1 .. Len(particles) : ~particles[i].active /\ particles'[i].active}

\* C22 (as claimed): a setConfig step replaces the keys of one override and
\* keeps every other key, and changes no particle; every particle an emit
\* or burst activates takes its colour, end colour, alpha start and end and
\* its lifetime range from the config in force at that call.
ReconfigReachesNewParticles ==
  [][/\ config' # config =>
          /\ particles' = particles
          /\ \E p \in GradientPartials :
               /\ DOMAIN config' = DOMAIN config \cup DOMAIN p
               /\ \A k \in DOMAIN config' :
                    config'[k] = (IF k \in DOMAIN p THEN p[k] ELSE config[k])
     /\ asked' > 0 =>
          \A i \in Activated :
            /\ particles'[i].color = config.color
            /\ particles'[i].colorEnd = ConfigGet(config, "colorEnd")
            /\ particles'[i].alphaStart = config.alpha.start
            /\ particles'[i].alphaEnd = config.alpha.end
            /\ particles'[i].lifetime \in
                 RandomRange(config.lifetime.min, config.lifetime.max)
            /\ particles'[i].maxLifetime = particles'[i].lifetime]_vars


\* C23: a burst() call leaves the emission accumulator, the count of timed
\* emissions, the config and the started flag as they were, and the timed
\* emissions of every update are fixed by the accumulator, the delta and
\* the rate alone: floor((emitTimer + delta) * emitRate) of them, the
\* remainder staying in the accumulator.  Later updates therefore emit what
\* they would have emitted without the burst.
BurstOffCadence ==
  [][/\ asked' = BurstDefault =>
          /\ emitTimer' = emitTimer
          /\ timedEmits' = timedEmits
          /\ elapsed' = elapsed
          /\ config' = config
          /\ active' = active
     /\ elapsed' # elapsed =>
          /\ timedEmits' - timedEmits =
               (emitTimer + elapsed' - elapsed) \div EmitInterval(config)
          /\ emitTimer' = (emitTimer + elapsed' - elapsed) % EmitInterval(config)]_vars

\* C23 witness: the last call was burst(), made between updates with part
\* of a period in the accumulator and timed emissions already made; it
\* reseeded a particle.
BurstOffCadenceWitness ==
  /\ asked = BurstDefault
  /\ emitTimer > 0
  /\ timedEmits >= 1
  /\ elapsed < MaxElapsed
  /\ \E i \in 1 .. Len(particles) : JustReseeded(particles[i])


\* C24: whatever calls were made, a setConfig that changes count among
\* them, the pool has the number of particles the constructor built and
\* holds the objects the constructor pushed, each at its place.
PoolNeverReallocated ==
  /\ Len(particles) = Max(0, count0)
  /\ \A i \in 1 .. Len(particles) : particles[i].id = i

\* C24 witness: setConfig has raised count above the size the pool was
\* built with, the last call was a burst asking for more than the pool
\* holds, and every particle of the pool is active.
PoolNeverReallocatedWitness ==
  /\ config.count > count0
  /\ asked = BurstDefault
  /\ Len(particles) >= 2
  /\ ActiveCount(particles) = Len(particles)
  /\ elapsed > 0


\* C25: a particle is active exactly as long as the delta its updates were
\* given since it was activated is less than the lifetime drawn for it, so
\* it is deactivated by the first update that brings the total to the
\* lifetime or beyond and by none before; and a step changes an inactive
\* particle only by resetting it in an emit, a burst or a timed emission,
\* after which it has been given at most that step's delta.
DeactivatedOnTime ==
  [][\A i \in 1 .. Len(particles') :
       /\ particles'[i].active <=> particles'[i].age < particles'[i].sampled
       /\ particles'[i].lifetime = particles'[i].sampled - particles'[i].age
       /\ (~particles[i].active /\ particles'[i] # particles[i]) =>
            /\ asked' > 0 \/ timedEmits' > timedEmits
            /\ particles'[i].age = elapsed' - elapsed]_vars

\* C25 witness: one particle was deactivated by the update that brought
\* its total to exactly its lifetime, after an update that left it active,
\* while another, updated as often, is still in flight.
DeactivatedOnTimeWitness ==
  /\ \E i \in 1 .. Len(particles) :
       /\ ~particles[i].active
       /\ particles[i].age = particles[i].sampled
       /\ particles[i].alpha # particles[i].alphaStart
       /\ particles[i].alpha # AlphaOne
  /\ \E j \in 1 .. Len(particles) :
       /\ particles[j].active
       /\ particles[j].age >= 2


\* ==================================================== stats properties ====
\* The numerals of the overlay for one stat.
Numerals(stat) == {k \in 1 .. Len(numerals) : numerals[k].stat = stat}

\* C26 (as claimed): the overlay is built without an error; an absent power
\* (undefined or null) leaves out the power numeral and nothing else, an
\* absent armor leaves out the armor numeral and nothing else: a power
\* that is present is shown once, and so is an armor above 0.
AbsentStatSuppressed ==
  statsOverlay # "none" =>
    /\ statsOverlay = "built"
    /\ Cardinality(Numerals("power")) =
         (IF statCard.power \in {Undefined, Null} THEN 0 ELSE 1)
    /\ Cardinality(Numerals("armor")) =
         (IF statCard.armor \in {Undefined, Null} \/ statCard.armor = 0
          THEN 0 ELSE 1)
    /\ Len(numerals) =
         Cardinality(Numerals("power")) + Cardinality(Numerals("armor"))


\* ==================================================== drain properties ====
\* C27 (as claimed): every update call that has entered its drain loop
\* returns.
UpdateReturns == (updating # NoCall) ~> (updating = NoCall)

\* C28: every update call made with emitRate > 0 returns with the
\* accumulator at 0 or above and below one period of the rate in force,
\* also when setConfig replaced the rate since the update before.
NoEmissionDebt ==
  [][(updating # NoCall /\ updating' = NoCall /\ config.emitRate > 0) =>
       /\ 0 <= emitTimer'
       /\ emitTimer' < SignedInterval(config'.emitRate)]_vars

\* C28 witness: setConfig replaced the rate after an update by one whose
\* period the accumulator already held; the update that followed has
\* returned, with emissions made and part of a period left.
NoEmissionDebtWitness ==
  /\ updating = NoCall
  /\ note = "after debt"
  /\ config.emitRate > 0
  /\ emitTimer > 0
  /\ timedEmits >= 2


\* =================================================== hover properties ====
\* Every effect run of the surface so far was one with isPremium false.
NeverPremium == \A i \in 1 .. Len(eff) : ~eff[i].premium

\* C29: on a surface that has been non-premium since it was mounted, no
\* frame callback is registered and animate() has never run, whatever
\* pointer events were handled: no frame id is stored, every card
\* container has the transform it was built with, and no run's loop was
\* started (so the time counter and the shader parameters, which only
\* animate() writes, are untouched).
NonPremiumStaysStill ==
  NeverPremium =>
    /\ animationRef = 0
    /\ \A i \in 1 .. Len(eff) :
         /\ eff[i].loop = "none"
         /\ ~eff[i].staleTick
         /\ eff[i].transform = Rest

\* C29 witness: a non-premium surface whose card scene is built and live,
\* the pointer over it away from the centre and the last event a click.
NonPremiumStaysStillWitness ==
  /\ NeverPremium
  /\ mounted
  /\ CardSceneBuilt(Len(eff)) /\ ~eff[Len(eff)].destroyed
  /\ isHovered
  /\ mousePos # Centre
  /\ lastEvent.type = "click"

\* C30 (as claimed): after a pointer-leave, the stored pointer position is
\* the centre and the tick that is due on the running scene is the idle
\* one and leaves the card container without skew.
LeaveRestoresIdle ==
  lastEvent.type = "leave" =>
    /\ mousePos = Centre
    /\ \A i \in 1 .. Len(eff) :
         Animating(i) =>
           /\ TickTransform(eff[i]).mode = "idle"
           /\ ApplyTick(eff[i]).transform.skewX = 0
           /\ ApplyTick(eff[i]).transform.skewY = 0


\* ================================================ drop-target properties ====
\* The cases in which the drop is to be allowed: in manual mode from a
\* known zone to a different known zone; outside manual mode from the
\* hand to the play area or the discard pile with canPlay set.
DropAllowed ==
  IF manualMode = "true"
  THEN /\ dragItem.source \in KnownZones
       /\ dropZone \in KnownZones
       /\ dropZone # dragItem.source
  ELSE /\ dragItem.source = "hand"
       /\ dropZone \in {"play area", "discard"}
       /\ dragItem.canPlay = "true"

\* C31 (as claimed): once canDrop has been evaluated, its result is true
\* exactly when the drop is allowed, and in every other case the drop is
\* refused: the callback returns false or undefined.
CanDropAsClaimed ==
  canDrop # "not evaluated" =>
    IF DropAllowed THEN canDrop = "true" ELSE canDrop \in {"false", "undefined"}

====
